---- MODULE Spec2Model ----
(***************************************************************************)
(* Model of analysis.py: the reconciliation of a sparse table of           *)
(* cumulative per-canton counters into a dense (canton, date) grid.        *)
(*                                                                         *)
(* A DataFrame is a sequence of rows; the row label (pandas index) of a    *)
(* RangeIndex frame is the position in the sequence (1-based here, 0-based *)
(* in pandas).  A row is a record with the fields date, canton and one     *)
(* field per cumulative column.  Dates are day numbers: the ISO strings of *)
(* the source order and enumerate as the day numbers do.  A missing value  *)
(* (NaN) is the sentinel NaN; reported values are naturals.                *)
(***************************************************************************)
EXTENDS Integers, Sequences, FiniteSets, TLC

\* ------------------------------------------------------------------ bounds
MaxDay == 4          \* longest calendar span of a one-canton input table
MaxDaySmall == 2     \* longest calendar span of a two-canton input table
MaxVal == 2          \* largest reported cumulative value
MaxTrimCantons == 3  \* most cantons of a long input table
MaxTrimDays == 29    \* longest calendar span of a long input table
MaxPlotDays == 3     \* longest calendar span of a plotted grid

\* --------------------------------------------------------- program constants
MAX_CANTONS == 8
cumul_columns == <<"ncumul_conf", "ncumul_deceased">>
NaN == -1

isnan(x) == x = NaN

\* The canton codes of the input tables, in increasing string order.
CantonNames == <<"AA", "BB", "FL", "GE", "VD">>

\* Order of the canton strings under Python's string comparison.
CantonRank(c) == CHOOSE i \in 1..Len(CantonNames) : CantonNames[i] = c

\* ------------------------------------------------------------ pandas helpers
\* Series.unique(): the distinct values in order of first appearance.
UniqueOf(s) ==
    LET IsFirst(i) == \A j \in 1..(i - 1) : s[j] # s[i]
        firsts == SelectSeq([i \in 1..Len(s) |-> i], IsFirst)
    IN [k \in 1..Len(firsts) |-> s[firsts[k]]]

\* Mutant of unique_cantons: the canton column itself, repeats included.
all_cantons(df) == [i \in 1..Len(df) |-> df[i].canton]

unique_cantons(df) == UniqueOf([i \in 1..Len(df) |-> df[i].canton])

\* df[df['canton'] == canton].index: the labels of the canton's rows, in row order.
IndexOfCanton(df, canton) ==
    LET IsCanton(i) == df[i].canton = canton
    IN SelectSeq([i \in 1..Len(df) |-> i], IsCanton)

\* ------------------------------------------------------ check_inconsistencies
\* Mutant of ScanCell: a gap after the first value is filled with 0.
ScanCellZeroGap(st, index, col_name, fillna) ==
    LET x == st.df[index][col_name] IN
    IF ~st.has_value
    THEN IF isnan(x)
         THEN IF fillna
              THEN [st EXCEPT !.df[index][col_name] = st.max_value]
              ELSE st
         ELSE [st EXCEPT !.has_value = TRUE, !.max_value = x]
    ELSE IF isnan(x)
         THEN [st EXCEPT !.df[index][col_name] = 0]
         ELSE IF st.max_value > x
              THEN [st EXCEPT !.inconsistencies = Append(@, <<index, col_name>>)]
              ELSE [st EXCEPT !.max_value = x]

\* Mutant of ScanCell: a flagged value becomes the value to compare with.
ScanCellTrackLast(st, index, col_name, fillna) ==
    LET x == st.df[index][col_name] IN
    IF ~st.has_value
    THEN IF isnan(x)
         THEN IF fillna
              THEN [st EXCEPT !.df[index][col_name] = st.max_value]
              ELSE st
         ELSE [st EXCEPT !.has_value = TRUE, !.max_value = x]
    ELSE IF isnan(x)
         THEN [st EXCEPT !.df[index][col_name] = st.max_value]
         ELSE IF st.max_value > x
              THEN [st EXCEPT !.inconsistencies = Append(@, <<index, col_name>>),
                              !.max_value = x]
              ELSE [st EXCEPT !.max_value = x]

\* Mutant of ScanCell: an unchanged value is flagged too.
ScanCellNotStrict(st, index, col_name, fillna) ==
    LET x == st.df[index][col_name] IN
    IF ~st.has_value
    THEN IF isnan(x)
         THEN IF fillna
              THEN [st EXCEPT !.df[index][col_name] = st.max_value]
              ELSE st
         ELSE [st EXCEPT !.has_value = TRUE, !.max_value = x]
    ELSE IF isnan(x)
         THEN [st EXCEPT !.df[index][col_name] = st.max_value]
         ELSE IF st.max_value >= x
              THEN [st EXCEPT !.inconsistencies = Append(@, <<index, col_name>>)]
              ELSE [st EXCEPT !.max_value = x]

\* One iteration of the innermost loop (lines 99-114) on the scan state
\* st = [df, inconsistencies, has_value, max_value].
ScanCell(st, index, col_name, fillna) ==
    LET x == st.df[index][col_name] IN
    IF ~st.has_value
    THEN IF isnan(x)
         THEN IF fillna
              THEN [st EXCEPT !.df[index][col_name] = st.max_value]
              ELSE st
         ELSE [st EXCEPT !.has_value = TRUE, !.max_value = x]
    ELSE IF isnan(x)
         THEN [st EXCEPT !.df[index][col_name] = st.max_value]
         ELSE IF st.max_value > x
              THEN [st EXCEPT !.inconsistencies = Append(@, <<index, col_name>>)]
              ELSE [st EXCEPT !.max_value = x]

\* for index in df[df['canton'] == canton][col_name].index (line 98)
\* The scan state after the labels idx, taken in order from the state st.
RECURSIVE ScanIndex(_, _, _, _)
ScanIndex(st, idx, col_name, fillna) ==
    IF idx = <<>> THEN st
    ELSE ScanCell(ScanIndex(st, SubSeq(idx, 1, Len(idx) - 1), col_name, fillna),
                  idx[Len(idx)], col_name, fillna)

\* Mutant of ScanCantons: has_value and max_value carry over to the next canton.
RECURSIVE ScanCantonsNoReset(_, _, _, _)
ScanCantonsNoReset(st, cantons, col_name, fillna) ==
    IF cantons = <<>> THEN st
    ELSE ScanCantonsNoReset(
             ScanIndex(st, IndexOfCanton(st.df, Head(cantons)), col_name, fillna),
             Tail(cantons), col_name, fillna)

\* for canton in cantons (lines 95-97): has_value and max_value restart.
RECURSIVE ScanCantons(_, _, _, _)
ScanCantons(st, cantons, col_name, fillna) ==
    IF cantons = <<>> THEN st
    ELSE ScanCantons(
             ScanIndex([st EXCEPT !.has_value = FALSE, !.max_value = 0],
                       IndexOfCanton(st.df, Head(cantons)), col_name, fillna),
             Tail(cantons), col_name, fillna)

\* for col_name in columns (line 94)
RECURSIVE ScanColumns(_, _, _, _)
ScanColumns(st, columns, cantons, fillna) ==
    IF columns = <<>> THEN st
    ELSE ScanColumns(ScanCantons(st, cantons, Head(columns), fillna),
                     Tail(columns), cantons, fillna)

\* The whole function: the frame as mutated in place, and the returned list.
check_inconsistencies(df, columns, fillna) ==
    LET st == ScanColumns([df |-> df, inconsistencies |-> <<>>,
                           has_value |-> FALSE, max_value |-> 0],
                          columns, unique_cantons(df), fillna)
    IN [df |-> st.df, inconsistencies |-> st.inconsistencies]

\* -------------------------------------------------------- no_same_day_reports
\* df.loc[df['canton'] == canton_name, 'date'].is_unique
DatesUnique(df, canton_name) ==
    \A i, j \in 1..Len(df) :
        (i # j /\ df[i].canton = canton_name /\ df[j].canton = canton_name)
            => df[i].date # df[j].date

RECURSIVE SameDayCantons(_, _)
SameDayCantons(df, cantons) ==
    IF cantons = <<>> THEN <<>>
    ELSE IF ~DatesUnique(df, Head(cantons))
         THEN <<Head(cantons)>> \o SameDayCantons(df, Tail(cantons))
         ELSE SameDayCantons(df, Tail(cantons))

no_same_day_reports(df) == SameDayCantons(df, unique_cantons(df))

\* ---------------------------------------------------------------- sort_values
\* Row order of df.sort_values(by=['canton', 'date']): by canton, then by date.
RowBefore(a, b) ==
    \/ CantonRank(a.canton) < CantonRank(b.canton)
    \/ a.canton = b.canton /\ a.date < b.date

\* Insert a row after every row that is not after it (ties keep their order:
\* the sort on several keys is a lexsort, which is stable).
RECURSIVE InsertRow(_, _)
InsertRow(sorted, row) ==
    IF sorted = <<>> THEN <<row>>
    ELSE IF RowBefore(row, Head(sorted))
         THEN <<row>> \o sorted
         ELSE <<Head(sorted)>> \o InsertRow(Tail(sorted), row)

RECURSIVE SortRows(_, _)
SortRows(df, acc) ==
    IF df = <<>> THEN acc ELSE SortRows(Tail(df), InsertRow(acc, Head(df)))

sort_values(df) == SortRows(df, <<>>)

\* ---------------------------------------------------------------- make_new_df
min_date(df) ==
    CHOOSE d \in {df[i].date : i \in 1..Len(df)} :
        \A i \in 1..Len(df) : d <= df[i].date

max_date(df) ==
    CHOOSE d \in {df[i].date : i \in 1..Len(df)} :
        \A i \in 1..Len(df) : d >= df[i].date

\* pd.date_range(min_date, max_date): every calendar day, both ends included.
date_range(lo, hi) == [i \in 1..(hi - lo + 1) |-> lo + i - 1]

\* Lines 160-172: the frame of len(date_range) * len(cantons) rows, each date
\* repeated once per canton, the canton list repeated once per date, and the
\* cumulative columns unset.
EmptyGrid(df, columns) ==
    LET dr == date_range(min_date(df), max_date(df))
        cs == unique_cantons(df)
        n  == Len(cs)
        fields == {"date", "canton"} \cup {columns[i] : i \in 1..Len(columns)}
    IN [k \in 1..(Len(dr) * n) |->
          [f \in fields |->
              IF f = "date" THEN dr[((k - 1) \div n) + 1]
              ELSE IF f = "canton" THEN cs[((k - 1) % n) + 1]
              ELSE NaN]]

\* full_df[full_df['canton'] == canton].loc[full_df.date == date].index
HasSlot(full_df, canton, date) ==
    \E k \in 1..Len(full_df) :
        full_df[k].canton = canton /\ full_df[k].date = date

\* ...index[0]: the first matching label.
GridId(full_df, canton, date) ==
    CHOOSE k \in 1..Len(full_df) :
        /\ full_df[k].canton = canton /\ full_df[k].date = date
        /\ \A j \in 1..(k - 1) :
              ~(full_df[j].canton = canton /\ full_df[j].date = date)

\* Lines 181-183: copy the row's reported values into its grid slot.
RECURSIVE CopyColumns(_, _, _, _)
CopyColumns(full_df, id, row, columns) ==
    IF columns = <<>> THEN full_df
    ELSE CopyColumns(
             IF ~isnan(row[Head(columns)])
             THEN [full_df EXCEPT ![id][Head(columns)] = row[Head(columns)]]
             ELSE full_df,
             id, row, Tail(columns))

\* Lines 174-183: for index in df.index
RECURSIVE CopyRows(_, _, _, _)
CopyRows(full_df, df, index, columns) ==
    IF index > Len(df) THEN full_df
    ELSE CopyRows(
             CopyColumns(full_df,
                         GridId(full_df, df[index].canton, df[index].date),
                         df[index], columns),
             df, index + 1, columns)

make_new_df(df, columns) == CopyRows(EmptyGrid(df, columns), df, 1, columns)

\* index[0] raises IndexError for a row whose (canton, date) has no grid slot.
make_new_df_raises(df, columns) ==
    \E i \in 1..Len(df) :
        ~HasSlot(EmptyGrid(df, columns), df[i].canton, df[i].date)

\* ------------------------------------------------------------------ the trim
TRIM_ROWS == 27

\* Mutant of TrimTail: the rows of the last 27 dates are left out.
TrimTailDays(full_df) ==
    LET ds   == {full_df[i].date : i \in 1..Len(full_df)}
        Old(r) == Cardinality({d \in ds : d > r.date}) >= TRIM_ROWS
    IN SelectSeq(full_df, Old)

\* full_df[:-27]: a positional slice that leaves out the last 27 rows.
TrimTail(full_df) ==
    IF Len(full_df) > TRIM_ROWS
    THEN SubSeq(full_df, 1, Len(full_df) - TRIM_ROWS)
    ELSE <<>>

\* ------------------------------------------------------------------ draw_plot
None == <<"None">>     \* the default of the cantons parameter

\* Mutant of diff: a negative difference is replaced by 0.
diff_clamped(xs) ==
    [i \in 1..Len(xs) |->
        IF i = 1 \/ xs[i] < xs[i - 1] THEN 0 ELSE xs[i] - xs[i - 1]]

\* Series.diff().fillna(0): no change on the first row, then the difference to
\* the previous row.
diff(xs) == [i \in 1..Len(xs) |-> IF i = 1 THEN 0 ELSE xs[i] - xs[i - 1]]

\* list.remove(x): drops the first occurrence.
RECURSIVE remove(_, _)
remove(list, x) ==
    IF list = <<>> THEN <<>>
    ELSE IF Head(list) = x THEN Tail(list)
    ELSE <<Head(list)>> \o remove(Tail(list), x)

InList(list, x) == \E i \in 1..Len(list) : list[i] = x

\* Lines 238-244: the canton list and the frame after the Liechtenstein filter.
plot_cantons(df, cantons, exclude_FL) ==
    LET cs == IF cantons = None THEN unique_cantons(df) ELSE cantons
    IN IF exclude_FL /\ InList(cs, "FL") THEN remove(cs, "FL") ELSE cs

plot_frame(df, exclude_FL) ==
    LET NotFL(r) == r.canton # "FL"
    IN IF exclude_FL THEN SelectSeq(df, NotFL) ELSE df

\* Lines 246-249: the two assertions.
plot_asserts(columns, cantons, agg) ==
    /\ Len(columns) > 1 => agg
    /\ Len(cantons) > 1 => (Len(columns) = 1 \/ agg)

\* Lines 251-252: aggregation is forced from MAX_CANTONS cantons on.
plot_agg(cantons, agg) == agg \/ Len(cantons) >= MAX_CANTONS

\* The group keys of groupby(by='date'), which sorts them.
RECURSIVE SortedSeq(_)
SortedSeq(S) ==
    IF S = {} THEN <<>>
    ELSE LET m == CHOOSE x \in S : \A y \in S : x <= y
         IN <<m>> \o SortedSeq(S \ {m})

RECURSIVE SumColumn(_, _, _, _)
SumColumn(df, i, date, col) ==
    IF i > Len(df) THEN 0
    ELSE (IF df[i].date = date THEN df[i][col] ELSE 0)
         + SumColumn(df, i + 1, date, col)

\* Lines 259-263: df[df['canton'].isin(cantons)].groupby(by='date').sum()[columns],
\* differenced when remove_cumul; one plotted line per column.
agg_lines(df, columns, cantons, remove_cumul) ==
    LET Selected(r) == InList(cantons, r.canton)
        sel   == SelectSeq(df, Selected)
        dates == SortedSeq({sel[i].date : i \in 1..Len(sel)})
    IN [c \in 1..Len(columns) |->
          LET sums == [i \in 1..Len(dates) |->
                          SumColumn(sel, 1, dates[i], columns[c])]
          IN [label |-> columns[c], x |-> dates,
              y |-> IF remove_cumul THEN diff(sums) ELSE sums]]

\* Lines 266-277: one line per canton, over the canton's rows in row order.
canton_lines(df, columns, cantons, remove_cumul) ==
    [c \in 1..Len(cantons) |->
        LET idx == IndexOfCanton(df, cantons[c])
            ys  == [i \in 1..Len(idx) |-> df[idx[i]][columns[1]]]
        IN [label |-> cantons[c],
            x |-> [i \in 1..Len(idx) |-> df[idx[i]].date],
            y |-> IF remove_cumul THEN diff(ys) ELSE ys]]

\* ---------------------------------------------------------------------- state
VARIABLES
    pc,              \* position in the function under way
    df,              \* the frame read from the file / given to the function
    errors,          \* the last returned inconsistency list
    canton_reports,  \* the cantons with same day reports
    sorted_df,       \* df sorted by canton and date: make_new_df's argument
    full_df,         \* the dense grid, before the trailing slice
    ret,             \* the frame preprocess returns
    fillna,          \* check_inconsistencies' fillna argument
    df0,             \* the frame as it was before the first validator call
    first,           \* what the first of two validator calls left and returned
    args,            \* draw_plot's arguments
    lines            \* the lines draw_plot has put on the axes

vars == <<pc, df, errors, canton_reports, sorted_df, full_df, ret,
          fillna, df0, first, args, lines>>

\* ---------------------------------------------------------------- input tables
Absent == NaN - 1    \* generator only: the (canton, date) pair has no row in the file

Row(canton, date, conf) ==
    [date |-> date, canton |-> canton,
     ncumul_conf |-> conf, ncumul_deceased |-> NaN]

Reverse(s) == [i \in 1..Len(s) |-> s[Len(s) + 1 - i]]

\* The rows chosen by f over the first n cantons and the days 1..days, ordered
\* by canton and date.
TableOf(n, days, f) ==
    LET all == [k \in 1..(n * days) |->
                   Row(CantonNames[((k - 1) \div days) + 1], ((k - 1) % days) + 1,
                       f[<<((k - 1) \div days) + 1, ((k - 1) % days) + 1>>])]
        Reported(r) == r.ncumul_conf # Absent
    IN SelectSeq(all, Reported)

RECURSIVE InsertByDate(_, _)
InsertByDate(sorted, row) ==
    IF sorted = <<>> THEN <<row>>
    ELSE IF row.date < Head(sorted).date
         THEN <<row>> \o sorted
         ELSE <<Head(sorted)>> \o InsertByDate(Tail(sorted), row)

RECURSIVE Chronological(_, _)
Chronological(t, acc) ==
    IF t = <<>> THEN acc ELSE Chronological(Tail(t), InsertByDate(acc, Head(t)))

\* The row orders a file may hold a table in: 1 by canton, 2 reversed,
\* 3 chronological (the published file); and, from 4 on, the table followed by
\* a second report for the key of its first row.
FileOrder(t, o) ==
    CASE o = 1 -> t
      [] o = 2 -> Reverse(t)
      [] o = 3 -> Chronological(t, <<>>)
      [] OTHER -> Append(t, Row(t[1].canton, t[1].date, o - 5))

Reports(n, days, top) ==
    { g \in [(1..n) \X (1..days) -> Absent..top] :
        \E k \in DOMAIN g : g[k] # Absent }

\* Small tables: one canton over MaxDay days, in any file order, or two cantons
\* over MaxDaySmall days; with a second report for one key when dups.
SmallTable(t, dups) ==
    \/ \E f \in Reports(1, MaxDay, MaxVal),
          o \in 1..(IF dups THEN MaxVal + 5 ELSE 3) :
          t = FileOrder(TableOf(1, MaxDay, f), o)
    \/ \E f \in Reports(2, MaxDaySmall, MaxVal - 1), o \in 1..3 :
          t = FileOrder(TableOf(2, MaxDaySmall, f), o)

\* Long tables: n cantons reporting on day 1, the first one again on the last
\* day d, the grid being no longer than two days more than the trailing slice.
LongTable(t) ==
    \E n \in 1..MaxTrimCantons, d \in 2..MaxTrimDays, v \in 0..MaxVal :
        /\ n * (d - 2) <= TRIM_ROWS
        /\ t = [k \in 1..(n + 1) |->
                IF k <= n THEN Row(CantonNames[k], 1, 1)
                ELSE Row(CantonNames[1], d, v)]

\* Dense grids of the cantons AA and FL over days calendar days.
PlotGrid(t) ==
    \E days \in 1..MaxPlotDays :
        \E f \in [(1..2) \X (1..days) -> 0..(MaxVal - 1)] :
            t = [k \in 1..(2 * days) |->
                    [date |-> ((k - 1) \div 2) + 1,
                     canton |-> <<"AA", "FL">>[((k - 1) % 2) + 1],
                     ncumul_conf |-> f[<<((k - 1) % 2) + 1, ((k - 1) \div 2) + 1>>],
                     ncumul_deceased |-> 0]]

Idle ==
    /\ errors = <<>>
    /\ canton_reports = <<>>
    /\ sorted_df = <<>>
    /\ full_df = <<>>
    /\ ret = <<>>
    /\ first = <<>>
    /\ args = <<>>
    /\ lines = <<>>

\* preprocess on a small file.
Init ==
    /\ pc = "read"
    /\ SmallTable(df, TRUE)
    /\ df0 = df
    /\ fillna = TRUE
    /\ Idle

\* preprocess on a long file.
InitLong ==
    /\ pc = "read"
    /\ LongTable(df)
    /\ df0 = df
    /\ fillna = TRUE
    /\ Idle

\* make_new_df and the validator on a duplicate-free table.
InitGrid ==
    /\ pc = "sorted"
    /\ SmallTable(df, FALSE)
    /\ df0 = df
    /\ fillna = TRUE
    /\ errors = <<>>
    /\ canton_reports = <<>>
    /\ sorted_df = df
    /\ full_df = <<>>
    /\ ret = <<>>
    /\ first = <<>>
    /\ args = <<>>
    /\ lines = <<>>

\* check_inconsistencies on a table, with and without fill.
InitCheck ==
    /\ pc = "check"
    /\ SmallTable(df, TRUE)
    /\ df0 = df
    /\ fillna \in BOOLEAN
    /\ Idle

\* draw_plot on a dense grid.
InitPlot ==
    /\ pc = "plot"
    /\ ret = <<>>
    /\ PlotGrid(df)
    /\ df0 = df
    /\ fillna = TRUE
    /\ args \in [columns : {<<"ncumul_conf">>, <<"ncumul_conf", "ncumul_deceased">>},
                 cantons : {None, <<"AA">>, <<"FL", "AA">>},
                 exclude_FL : BOOLEAN, agg : BOOLEAN, remove_cumul : BOOLEAN]
    /\ errors = <<>>
    /\ canton_reports = <<>>
    /\ sorted_df = <<>>
    /\ full_df = <<>>
    /\ first = <<>>
    /\ lines = <<>>

\* ------------------------------------------------------------------ preprocess
\* Line 33: errors = check_inconsistencies(df, cumul_columns, fillna=True)
CheckRaw ==
    /\ pc = "read"
    /\ LET r == check_inconsistencies(df, cumul_columns, TRUE) IN
         /\ df' = r.df
         /\ errors' = r.inconsistencies
    /\ pc' = "checked"
    /\ UNCHANGED <<canton_reports, sorted_df, full_df, ret,
                   fillna, df0, first, args, lines>>

\* Line 35: canton_reports = no_same_day_reports(df)
SameDay ==
    /\ pc = "checked"
    /\ canton_reports' = no_same_day_reports(df)
    /\ pc' = "reported"
    /\ UNCHANGED <<df, errors, sorted_df, full_df, ret,
                   fillna, df0, first, args, lines>>

\* Lines 38-40: drop the time column, sort by canton and date.
SortValues ==
    /\ pc = "reported"
    /\ sorted_df' = sort_values(df)
    /\ pc' = "sorted"
    /\ UNCHANGED <<df, errors, canton_reports, full_df, ret,
                   fillna, df0, first, args, lines>>

\* Line 42: full_df = make_new_df(sorted_df, cumul_columns)
MakeNewDf ==
    /\ pc = "sorted"
    /\ IF make_new_df_raises(sorted_df, cumul_columns)
       THEN pc' = "raised" /\ UNCHANGED full_df
       ELSE /\ full_df' = make_new_df(sorted_df, cumul_columns)
            /\ pc' = "built"
    /\ UNCHANGED <<df, errors, canton_reports, sorted_df, ret,
                   fillna, df0, first, args, lines>>

\* Line 45: errors = check_inconsistencies(full_df, cumul_columns, fillna=True)
CheckGrid ==
    /\ pc = "built"
    /\ LET r == check_inconsistencies(full_df, cumul_columns, TRUE) IN
         /\ full_df' = r.df
         /\ errors' = r.inconsistencies
    /\ pc' = "validated"
    /\ UNCHANGED <<df, canton_reports, sorted_df, ret,
                   fillna, df0, first, args, lines>>

\* Lines 47-55: the integer cast (every cell is a whole number by now), the
\* date conversion, the trailing slice and the return.
Finish ==
    /\ pc = "validated"
    /\ ret' = TrimTail(full_df)
    /\ pc' = "done"
    /\ UNCHANGED <<df, errors, canton_reports, sorted_df, full_df,
                   fillna, df0, first, args, lines>>

\* ------------------------------------------- check_inconsistencies, called twice
Validate ==
    /\ pc = "check"
    /\ LET r == check_inconsistencies(df, cumul_columns, fillna) IN
         /\ df' = r.df
         /\ errors' = r.inconsistencies
         /\ first' = r
    /\ pc' = "checked_once"
    /\ UNCHANGED <<canton_reports, sorted_df, full_df, ret,
                   fillna, df0, args, lines>>

Revalidate ==
    /\ pc = "checked_once"
    /\ LET r == check_inconsistencies(df, cumul_columns, fillna) IN
         /\ df' = r.df
         /\ errors' = r.inconsistencies
    /\ pc' = "checked_twice"
    /\ UNCHANGED <<canton_reports, sorted_df, full_df, ret,
                   fillna, df0, first, args, lines>>

\* ------------------------------------------------------------------ draw_plot
PlotCantons == plot_cantons(df, args.cantons, args.exclude_FL)

\* Lines 246-249: an assertion fails.
DrawAssert ==
    /\ pc = "plot"
    /\ ~plot_asserts(args.columns, PlotCantons, args.agg)
    /\ pc' = "assert"
    /\ UNCHANGED <<df, errors, canton_reports, sorted_df, full_df, ret,
                   fillna, df0, first, args, lines>>

\* Lines 257-263: the aggregated branch.
DrawAggregated ==
    /\ pc = "plot"
    /\ plot_asserts(args.columns, PlotCantons, args.agg)
    /\ plot_agg(PlotCantons, args.agg)
    /\ lines' = agg_lines(plot_frame(df, args.exclude_FL), args.columns,
                          PlotCantons, args.remove_cumul)
    /\ pc' = "plotted"
    /\ UNCHANGED <<df, errors, canton_reports, sorted_df, full_df, ret,
                   fillna, df0, first, args>>

\* Lines 265-277: the per-canton branch.
DrawCantons ==
    /\ pc = "plot"
    /\ plot_asserts(args.columns, PlotCantons, args.agg)
    /\ ~plot_agg(PlotCantons, args.agg)
    /\ lines' = canton_lines(plot_frame(df, args.exclude_FL), args.columns,
                             PlotCantons, args.remove_cumul)
    /\ pc' = "plotted"
    /\ UNCHANGED <<df, errors, canton_reports, sorted_df, full_df, ret,
                   fillna, df0, first, args>>

\* ------------------------------------------------------------- specifications
Next ==
    \/ CheckRaw
    \/ SameDay
    \/ SortValues
    \/ MakeNewDf
    \/ CheckGrid
    \/ Finish

NextGrid ==
    \/ MakeNewDf
    \/ CheckGrid
    \/ Finish

NextCheck ==
    \/ Validate
    \/ Revalidate

NextPlot ==
    \/ DrawAssert
    \/ DrawAggregated
    \/ DrawCantons

Spec == Init /\ [][Next]_vars

SpecLong == InitLong /\ [][Next]_vars

SpecGrid == InitGrid /\ [][NextGrid]_vars

SpecCheck == InitCheck /\ [][NextCheck]_vars

SpecPlot == InitPlot /\ [][NextPlot]_vars

\* ------------------------------------------------------ vocabulary of the claims
Columns == {cumul_columns[i] : i \in 1..Len(cumul_columns)}

CantonsOf(t) == {t[i].canton : i \in 1..Len(t)}

\* The calendar days from the earliest to the latest date of the whole table.
SpanOf(t) ==
    LET ds == {t[i].date : i \in 1..Len(t)}
    IN {d \in 1..(MaxDay + MaxTrimDays + 1) :
          (\E a \in ds : a <= d) /\ (\E b \in ds : d <= b)}

\* Some row of t reports metric m for canton c at date d.
ReportedAt(t, c, d, m) ==
    \E i \in 1..Len(t) : t[i].canton = c /\ t[i].date = d /\ ~isnan(t[i][m])

ValuesAt(t, c, d, m) ==
    {t[i][m] : i \in {j \in 1..Len(t) :
                        t[j].canton = c /\ t[j].date = d /\ ~isnan(t[j][m])}}

\* The positions of the (c, d) rows of t.
RowsAt(t, c, d) == {k \in 1..Len(t) : t[k].canton = c /\ t[k].date = d}

NoDuplicateKeys(t) ==
    \A i, j \in 1..Len(t) :
        (t[i].canton = t[j].canton /\ t[i].date = t[j].date) => i = j

Flagged(list, k, m) == \E e \in 1..Len(list) : list[e] = <<k, m>>

\* d1 < d2 < d3, metric m of canton c reported at d1 and d3 and at no date between.
IsGap(t, c, m, d1, d2, d3) ==
    /\ d1 < d2 /\ d2 < d3
    /\ ReportedAt(t, c, d1, m)
    /\ ReportedAt(t, c, d3, m)
    /\ \A d \in (d1 + 1)..(d3 - 1) : ~ReportedAt(t, c, d, m)

GridValidated == pc \in {"validated", "done"}

\* ------------------------------------------------------------------------- C2
\* C2 as stated: after make_new_df and the validator with fill, every cell in a
\* gap between two reports holds the value reported at the start of the gap.
C2_CarryForwardLastValue ==
    GridValidated =>
        \A c \in CantonsOf(sorted_df), m \in Columns :
            \A d1, d2, d3 \in SpanOf(sorted_df) :
                IsGap(sorted_df, c, m, d1, d2, d3) =>
                    \A k \in RowsAt(full_df, c, d2) :
                        ValuesAt(sorted_df, c, d1, m) = {full_df[k][m]}

\* C2 amended: the cell in the gap holds the largest value reported up to the
\* start of the gap (the validator's running maximum); that is the value
\* reported at the start of the gap unless that value was flagged an anomaly.
C2_CarryForwardRunningMax ==
    GridValidated =>
        \A c \in CantonsOf(sorted_df), m \in Columns :
            \A d1, d2, d3 \in SpanOf(sorted_df) :
                IsGap(sorted_df, c, m, d1, d2, d3) =>
                    \A k \in RowsAt(full_df, c, d2) :
                        /\ \E d \in SpanOf(sorted_df) :
                              d <= d1 /\ ValuesAt(sorted_df, c, d, m) = {full_df[k][m]}
                        /\ \A d \in SpanOf(sorted_df) :
                              d <= d1 => \A v \in ValuesAt(sorted_df, c, d, m) :
                                            v <= full_df[k][m]
                        /\ (\A k1 \in RowsAt(full_df, c, d1) : ~Flagged(errors, k1, m))
                              => ValuesAt(sorted_df, c, d1, m) = {full_df[k][m]}

C2_Witness ==
    /\ pc = "validated"
    /\ \E c \in CantonsOf(sorted_df), d1, d2, d3 \in SpanOf(sorted_df) :
          /\ IsGap(sorted_df, c, "ncumul_conf", d1, d2, d3)
          /\ \E k \in RowsAt(full_df, c, d2) : full_df[k].ncumul_conf > 0
          /\ \E k1 \in RowsAt(full_df, c, d1) : Flagged(errors, k1, "ncumul_conf")

\* ------------------------------------------------------------------------- C4
\* C4: after the validator has filled the dense grid, every cell that is not
\* in the returned anomaly list is >= every earlier-dated cell of the same
\* canton and metric that is not in the list; with an empty list every series
\* is non-decreasing, and the list is non-empty whenever a value is strictly
\* lower than an earlier value of its series.
C4_MonotoneAfterFill ==
    GridValidated =>
        \A m \in Columns :
            \A i, j \in 1..Len(full_df) :
                (full_df[i].canton = full_df[j].canton
                 /\ full_df[i].date < full_df[j].date)
                => /\ (~Flagged(errors, i, m) /\ ~Flagged(errors, j, m))
                        => full_df[i][m] <= full_df[j][m]
                   /\ errors = <<>> => full_df[i][m] <= full_df[j][m]
                   /\ full_df[j][m] < full_df[i][m] => errors # <<>>

C4_Witness ==
    /\ pc = "validated"
    /\ \E i, j, k \in 1..Len(full_df) :
          /\ full_df[i].canton = full_df[j].canton
          /\ full_df[j].canton = full_df[k].canton
          /\ full_df[i].date < full_df[j].date
          /\ full_df[j].date < full_df[k].date
          /\ Flagged(errors, j, "ncumul_conf")
          /\ ~Flagged(errors, k, "ncumul_conf")
          /\ ~ReportedAt(sorted_df, full_df[k].canton, full_df[k].date, "ncumul_conf")

\* ------------------------------------------------------------------------- C5
\* C5: for a non-empty duplicate-free table, make_new_df returns a grid of
\* (distinct cantons) x (calendar days from the earliest to the latest date of
\* the whole table) rows in which every (canton, date) pair occurs exactly once.
C5_Density ==
    (pc = "built" /\ NoDuplicateKeys(sorted_df)) =>
        /\ Len(full_df) =
              Cardinality(CantonsOf(sorted_df)) * Cardinality(SpanOf(sorted_df))
        /\ \A c \in CantonsOf(sorted_df), d \in SpanOf(sorted_df) :
              Cardinality(RowsAt(full_df, c, d)) = 1

C5_Witness ==
    /\ pc = "built"
    /\ NoDuplicateKeys(sorted_df)
    /\ Cardinality(CantonsOf(sorted_df)) = 2
    /\ Cardinality(SpanOf(sorted_df)) >= 2
    /\ Len(sorted_df) < Len(full_df)
    /\ \E c \in CantonsOf(sorted_df) :
          Cardinality({sorted_df[i].date :
                         i \in {j \in 1..Len(sorted_df) : sorted_df[j].canton = c}}) = 1

\* ------------------------------------------------------------------------- C6
\* C6: after make_new_df and the validator with fill, a cell of canton c and
\* metric m at a date with no report of m for c at or before it is 0: the
\* cells before the first reported value, and every cell of a metric that is
\* never reported.
C6_ZeroDefault ==
    GridValidated =>
        \A c \in CantonsOf(sorted_df), m \in Columns, d \in SpanOf(sorted_df) :
            (\A e \in SpanOf(sorted_df) : e <= d => ~ReportedAt(sorted_df, c, e, m))
                => \A k \in RowsAt(full_df, c, d) : full_df[k][m] = 0

C6_Witness ==
    /\ pc = "validated"
    /\ \E c \in CantonsOf(sorted_df), d, e \in SpanOf(sorted_df) :
          /\ d < e
          /\ \A x \in SpanOf(sorted_df) :
                x <= d => ~ReportedAt(sorted_df, c, x, "ncumul_conf")
          /\ \E v \in ValuesAt(sorted_df, c, e, "ncumul_conf") : v > 0
          /\ \E b \in CantonsOf(sorted_df) :
                \E v \in ValuesAt(sorted_df, b, d, "ncumul_conf") : v > 0
          /\ \A k \in RowsAt(full_df, c, d) : full_df[k].ncumul_conf = 0

\* ------------------------------------------------------------------------- C8
\* C8 as stated: when the table holds more than one row for a (canton, date),
\* make_new_df fails and no grid is produced.
C8_DuplicatesFail ==
    pc \in {"built", "validated", "done"} => NoDuplicateKeys(sorted_df)

\* ------------------------------------------------------------------------- C3
\* C3 as stated: without fill, check_inconsistencies changes no cell of the
\* table it is given.
C3_NoFillNoWrite ==
    (pc = "checked_once" /\ ~fillna) => df = df0

\* ------------------------------------------------------------------------- C7
\* C7: a second check_inconsistencies with fill, on the table a first one with
\* fill has left, changes no cell and returns the list the first one returned.
C7_Idempotent ==
    (pc = "checked_twice" /\ fillna) =>
        /\ df = first.df
        /\ errors = first.inconsistencies

C7_Witness ==
    /\ pc = "checked_twice"
    /\ fillna
    /\ errors # <<>>
    /\ \E i, j \in 1..Len(df0) :
          /\ df0[i].canton = df0[j].canton
          /\ i < j
          /\ isnan(df0[i].ncumul_conf)
          /\ isnan(df0[j].ncumul_conf)
          /\ df[i].ncumul_conf = 0
          /\ df[j].ncumul_conf > 0

\* ------------------------------------------------------------------------- C9
\* The cells of a table and the flagged cells of a list, by (canton, date, metric).
KeyedCells(t) ==
    {<<t[i].canton, t[i].date, m, t[i][m]>> : i \in 1..Len(t), m \in Columns}

KeyedFlags(t, list) ==
    {<<t[list[e][1]].canton, t[list[e][1]].date, list[e][2]>> : e \in 1..Len(list)}

\* C9 as stated: the validator classifies every series in increasing date
\* order whatever the row order, so a duplicate-free table yields the cells
\* and the anomalies that the same rows in date order yield.
C9_RowOrderIrrelevant ==
    (pc = "checked_once" /\ fillna /\ NoDuplicateKeys(df0)) =>
        LET ordered == check_inconsistencies(sort_values(df0), cumul_columns, fillna)
        IN /\ KeyedCells(df) = KeyedCells(ordered.df)
           /\ KeyedFlags(df, errors) = KeyedFlags(ordered.df, ordered.inconsistencies)

\* ------------------------------------------------------------------------- C1
RECURSIVE SumOver(_, _, _, _)
SumOver(t, cs, d, m) ==
    IF cs = {} THEN 0
    ELSE LET c == CHOOSE x \in cs : TRUE
         IN (IF ValuesAt(t, c, d, m) = {} THEN 0
             ELSE CHOOSE v \in ValuesAt(t, c, d, m) : TRUE)
            + SumOver(t, cs \ {c}, d, m)

\* The cantons a call of draw_plot plots: the requested ones (all by default)
\* that have rows, Liechtenstein left out when excluded.
PlottedCantons ==
    {c \in CantonsOf(df) :
        /\ args.cantons # None => InList(args.cantons, c)
        /\ args.exclude_FL => c # "FL"}

\* The cumulative value behind point i of a plotted line: the canton's cell in
\* the per-canton branch, the sum over the plotted cantons in the aggregated one.
Cumulative(line, i) ==
    IF line.label \in Columns
    THEN SumOver(df, PlottedCantons, line.x[i], line.label)
    ELSE SumOver(df, {line.label}, line.x[i], args.columns[1])

Differenced == pc = "plotted" /\ args.remove_cumul

LastDate(t) ==
    LET ds == {t[i].date : i \in 1..Len(t)}
    IN CHOOSE d \in ds : \A e \in ds : e <= d

\* The rows of the grid that the returned frame keeps.
Kept == {k \in 1..Len(full_df) : \E j \in 1..Len(ret) : ret[j] = full_df[k]}

\* Every date that has a row in t has one row for every canton of the grid.
WholeDays(t) ==
    \A d \in {t[k].date : k \in 1..Len(t)}, c \in CantonsOf(full_df) :
        Cardinality(RowsAt(t, c, d)) = 1

====
